---- MODULE Spec2Model ----
(***************************************************************************)
(* Model of portal_property_syncer.py: preparePortal, ResultMessages and   *)
(* syncProperties with its two creation helpers.                           *)
(*                                                                         *)
(* Specifications:                                                         *)
(*   Spec      one syncProperties(objectType, sourcePortal, targetPortal)  *)
(*             call on two prepared portals, against remote accounts whose *)
(*             groups and properties are drawn from bounded sets;          *)
(*   PrepSpec  the preparation phase of __main__: the four portals are     *)
(*             constructed and handed to preparePortal one after another.  *)
(***************************************************************************)
EXTENDS Naturals, Sequences, FiniteSets

VARIABLES
    pc,                       \* position in the program
    i,                        \* index of the current for-loop / portal
    portals,                  \* Portal dataclass instances, by variable
    remote,                   \* what each remote account stores
    sourceGroupsByName,       \* sourceContactPropertyGroupsByName
    sourcePropertiesByName,   \* sourcePropertiesByName
    targetGroupsByName,       \* targetContactPropertyGroupsByName
    targetPropertiesByName,   \* targetPropertiesByName
    messages,                 \* ResultMessages._messages
    calls,                    \* creation requests issued, in order
    netCalls,                 \* requests.get urls issued by preparePortal
    error                     \* the exception that left the program, or None

vars == <<pc, i, portals, remote, sourceGroupsByName, sourcePropertiesByName,
          targetGroupsByName, targetPropertiesByName, messages, calls,
          netCalls, error>>

None == "None"

----------------------------------------------------------------------------
(* Bounds and input sets *)

\* total number of objects the four listings return together
MaxObjects == 3

\* names the remote may use: one reserved, one that only shares "hs", one plain
Names == {"a", "hsc", "hs_b"}

Labels == {"L1", "L2"}

\* PropertyGroup as far as the program reads it
GroupObjects == [name : Names, label : Labels]

\* ModelProperty as far as the program reads it
PropertyObjects == [name : Names, calculated : BOOLEAN]

\* what an exception of a remote call prints as
Failures == {"409 Conflict", "429 Too Many Requests"}

----------------------------------------------------------------------------
(* Portal *)

PortalVars == <<"portal1Portal", "portal2Portal", "portal3Portal", "portal4Portal">>

PortalIdOf == [portal1Portal |-> 111111, portal2Portal |-> 222222,
               portal3Portal |-> 3333333, portal4Portal |-> 444444]

PortalNameOf == [portal1Portal |-> "portal1", portal2Portal |-> "portal2",
                 portal3Portal |-> "portal3", portal4Portal |-> "portal4"]

\* credentials a caller may put in Portal.apiKey
ApiKeys == {None, "", "key"}

Portal(v, apiKey) ==
    [portalId |-> PortalIdOf[v], name |-> PortalNameOf[v],
     apiKey |-> apiKey, apiClient |-> None]

\* HubSpot(api_key=...)
HubSpot(apiKey) == "HubSpot(api_key=" \o apiKey \o ")"

\* variant: `portal.apiKey is None`
ApiKeyIsNone(apiKey) == apiKey = None

\* Python truth value of `not portal.apiKey`
NotApiKey(apiKey) == apiKey = None \/ apiKey = ""

sourceVar == "portal1Portal"
targetVar == "portal2Portal"
sourcePortal == portals[sourceVar]
targetPortal == portals[targetVar]
\* the first object type __main__ passes
objectType == "contact"

----------------------------------------------------------------------------
(* ResultMessages *)

addMessage(msgs, message) ==
    Append(msgs, sourcePortal.name \o "->" \o targetPortal.name \o " ("
                 \o objectType \o "): " \o message)

getMessages == messages

----------------------------------------------------------------------------
(* helpers of syncProperties *)

\* one step of a dict comprehension {o.name: o for o in results}: a repeated
\* key keeps its first position and takes the last value
DictPut(d, o) ==
    IF \E k \in DOMAIN d : d[k].name = o.name
    THEN [k \in DOMAIN d |-> IF d[k].name = o.name THEN o ELSE d[k]]
    ELSE Append(d, o)

RECURSIVE IndexByNameFrom(_, _, _)
IndexByNameFrom(d, results, k) ==
    IF k > Len(results) THEN d
    ELSE IndexByNameFrom(DictPut(d, results[k]), results, k + 1)

\* variant: the listing is walked as returned, repeated names included
IndexByNameKeepingRepeats(results) == results

IndexByName(results) == IndexByNameFrom(<<>>, results, 1)

\* `name in d`
In(name, d) == \E k \in DOMAIN d : d[k].name = name

ReservedPrefix == "hs_"

\* variant: name == "hs_"
EqualsHs(name) == name = ReservedPrefix

\* name.startswith("hs_")
StartsWithHs(name) ==
    /\ Len(name) >= Len(ReservedPrefix)
    /\ SubSeq(name, 1, Len(ReservedPrefix)) = ReservedPrefix

\* variant: the properties are processed before the groups
AfterPhasePropertiesFirst(p) ==
    CASE p = "getSourceGroups"     -> "getSourceProperties"
      [] p = "getSourceProperties" -> "getTargetGroups"
      [] p = "getTargetGroups"     -> "getTargetProperties"
      [] p = "getTargetProperties" -> "propertiesForward"
      [] p = "propertiesForward"   -> "propertiesReverse"
      [] p = "propertiesReverse"   -> "groupsForward"
      [] p = "groupsForward"       -> "groupsReverse"
      [] p = "groupsReverse"       -> "returned"

\* variant: each kind is fetched right before its own two passes
AfterPhaseFetchPerKind(p) ==
    CASE p = "getSourceGroups"     -> "getTargetGroups"
      [] p = "getTargetGroups"     -> "groupsForward"
      [] p = "groupsForward"       -> "groupsReverse"
      [] p = "groupsReverse"       -> "getSourceProperties"
      [] p = "getSourceProperties" -> "getTargetProperties"
      [] p = "getTargetProperties" -> "propertiesForward"
      [] p = "propertiesForward"   -> "propertiesReverse"
      [] p = "propertiesReverse"   -> "returned"

\* the statement that follows each part of syncProperties
AfterPhase(p) ==
    CASE p = "getSourceGroups"     -> "getSourceProperties"
      [] p = "getSourceProperties" -> "getTargetGroups"
      [] p = "getTargetGroups"     -> "getTargetProperties"
      [] p = "getTargetProperties" -> "groupsForward"
      [] p = "groupsForward"       -> "groupsReverse"
      [] p = "groupsReverse"       -> "propertiesForward"
      [] p = "propertiesForward"   -> "propertiesReverse"
      [] p = "propertiesReverse"   -> "returned"

LoopPhases == {"groupsForward", "groupsReverse", "propertiesForward",
               "propertiesReverse"}

\* the mapping the for-loop at p iterates over
LoopItems(p) ==
    CASE p = "groupsForward"     -> sourceGroupsByName
      [] p = "groupsReverse"     -> targetGroupsByName
      [] p = "propertiesForward" -> sourcePropertiesByName
      [] p = "propertiesReverse" -> targetPropertiesByName
      [] OTHER                   -> <<>>

snapshots == <<sourceGroupsByName, sourcePropertiesByName,
               targetGroupsByName, targetPropertiesByName>>

\* outcomes of a remote call: it returns, or raises an Exception
Outcomes == {"ok"} \cup Failures

\* a creation request as the target account receives it
Request(portal, api, body, outcome) ==
    [portal |-> portal.name, client |-> portal.apiClient, api |-> api,
     objectType |-> objectType, body |-> body, outcome |-> outcome]

\* the remote account stores what a successful create carries
Store(v, kind, body) ==
    [remote EXCEPT ![v][kind] = Append(remote[v][kind], body)]

----------------------------------------------------------------------------
(* the creation helpers *)

\* the statement is done without an exception: the loop goes on with its
\* next item
Continue ==
    /\ i' = i + 1
    /\ UNCHANGED <<pc, portals, snapshots, netCalls, error>>

\* a branch that only prints
Skip == UNCHANGED <<remote, messages, calls>>

\* variant: the failure of the create call is not caught
createPropertyGroupUncaught(otherPropertyGroup, outcome) ==
    LET body == [name |-> otherPropertyGroup.name,
                 label |-> otherPropertyGroup.label]
    IN  /\ calls' = Append(calls,
                 Request(targetPortal, "groups_api.create", body, outcome))
        /\ IF outcome = "ok"
           THEN /\ remote' = Store(targetVar, "groups", body)
                /\ messages' = messages
                /\ Continue
           ELSE /\ pc' = "raised"
                /\ error' = outcome
                /\ UNCHANGED <<i, portals, snapshots, netCalls, remote,
                               messages>>

\* variant: the request goes to the source portal's client
createPropertyGroupOnSource(otherPropertyGroup, outcome) ==
    LET body == [name |-> otherPropertyGroup.name,
                 label |-> otherPropertyGroup.label]
    IN  /\ calls' = Append(calls,
                 Request(sourcePortal, "groups_api.create", body, outcome))
        /\ IF outcome = "ok"
           THEN /\ remote' = Store(sourceVar, "groups", body)
                /\ messages' = messages
           ELSE /\ remote' = remote
                /\ messages' = addMessage(messages,
                       "Failed creating new property group "
                       \o otherPropertyGroup.name \o ": " \o outcome)
        /\ Continue

createPropertyGroupBasedOnOtherPropertyGroup(otherPropertyGroup, outcome) ==
    LET body == [name |-> otherPropertyGroup.name,
                 label |-> otherPropertyGroup.label]
    IN  /\ calls' = Append(calls,
                 Request(targetPortal, "groups_api.create", body, outcome))
        /\ IF outcome = "ok"
           THEN /\ remote' = Store(targetVar, "groups", body)
                /\ messages' = messages
           ELSE /\ remote' = remote
                /\ messages' = addMessage(messages,
                       "Failed creating new property group "
                       \o otherPropertyGroup.name \o ": " \o outcome)
        /\ Continue

\* variant: a calculated property is sent to the target like any other
createPropertyIgnoringCalculated(otherProperty, outcome) ==
    LET body == [name |-> otherProperty.name,
                 calculated |-> otherProperty.calculated]
    IN  /\ calls' = Append(calls,
                 Request(targetPortal, "core_api.create", body, outcome))
        /\ IF outcome = "ok"
           THEN /\ remote' = Store(targetVar, "properties", body)
                /\ messages' = messages
           ELSE /\ remote' = remote
                /\ messages' = addMessage(messages,
                       "Failed creating new property  "
                       \o otherProperty.name \o ": " \o outcome)
        /\ Continue

createPropertyBasedOnOtherProperty(otherProperty, outcome) ==
    IF otherProperty.calculated
    THEN /\ messages' = addMessage(messages,
                "Skipped property " \o otherProperty.name
                \o ": it is a calculated property, create it manually.")
         /\ UNCHANGED <<calls, remote>>
         /\ Continue
    ELSE LET body == [name |-> otherProperty.name,
                      calculated |-> otherProperty.calculated]
         IN  /\ calls' = Append(calls,
                      Request(targetPortal, "core_api.create", body, outcome))
             /\ IF outcome = "ok"
                THEN /\ remote' = Store(targetVar, "properties", body)
                     /\ messages' = messages
                ELSE /\ remote' = remote
                     /\ messages' = addMessage(messages,
                            "Failed creating new property  "
                            \o otherProperty.name \o ": " \o outcome)
             /\ Continue

----------------------------------------------------------------------------
(* syncProperties *)

\* a get_all call: it returns the account's listing or raises
GetAll(p, outcome) ==
    /\ pc = p
    /\ IF outcome = "ok"
       THEN /\ pc' = AfterPhase(p)
            /\ error' = error
       ELSE /\ pc' = "raised"
            /\ error' = outcome
    /\ UNCHANGED <<i, portals, remote, messages, calls, netCalls>>

GetSourceGroups ==
    \E outcome \in Outcomes :
        /\ GetAll("getSourceGroups", outcome)
        /\ sourceGroupsByName' =
              IF outcome = "ok" THEN IndexByName(remote[sourceVar].groups)
              ELSE sourceGroupsByName
        /\ UNCHANGED <<sourcePropertiesByName, targetGroupsByName,
                       targetPropertiesByName>>

GetSourceProperties ==
    \E outcome \in Outcomes :
        /\ GetAll("getSourceProperties", outcome)
        /\ sourcePropertiesByName' =
              IF outcome = "ok" THEN IndexByName(remote[sourceVar].properties)
              ELSE sourcePropertiesByName
        /\ UNCHANGED <<sourceGroupsByName, targetGroupsByName,
                       targetPropertiesByName>>

GetTargetGroups ==
    \E outcome \in Outcomes :
        /\ GetAll("getTargetGroups", outcome)
        /\ targetGroupsByName' =
              IF outcome = "ok" THEN IndexByName(remote[targetVar].groups)
              ELSE targetGroupsByName
        /\ UNCHANGED <<sourceGroupsByName, sourcePropertiesByName,
                       targetPropertiesByName>>

GetTargetProperties ==
    \E outcome \in Outcomes :
        /\ GetAll("getTargetProperties", outcome)
        /\ targetPropertiesByName' =
              IF outcome = "ok" THEN IndexByName(remote[targetVar].properties)
              ELSE targetPropertiesByName
        /\ UNCHANGED <<sourceGroupsByName, sourcePropertiesByName,
                       targetGroupsByName>>

\* one iteration of "Create missing" for property groups
GroupsForward ==
    /\ pc = "groupsForward"
    /\ i <= Len(sourceGroupsByName)
    /\ LET propertyGroup == sourceGroupsByName[i]
           name == propertyGroup.name
       IN  IF StartsWithHs(name) THEN Skip /\ Continue
           ELSE IF ~In(name, targetGroupsByName)
           THEN \E outcome \in Outcomes :
                   createPropertyGroupBasedOnOtherPropertyGroup(
                       propertyGroup, outcome)
           ELSE Skip /\ Continue

\* one iteration of "Report extra" for property groups
GroupsReverse ==
    /\ pc = "groupsReverse"
    /\ i <= Len(targetGroupsByName)
    /\ LET name == targetGroupsByName[i].name
       IN  IF StartsWithHs(name) THEN Skip
           ELSE IF ~In(name, sourceGroupsByName)
           THEN /\ messages' = addMessage(messages,
                      "property group " \o name \o " is only in target - "
                      \o "delete it manually or sync other way")
                /\ UNCHANGED <<remote, calls>>
           ELSE Skip
    /\ Continue

\* variant: the property is looked up among the target's groups
PropertiesForwardAgainstGroups ==
    /\ pc = "propertiesForward"
    /\ i <= Len(sourcePropertiesByName)
    /\ LET currentProperty == sourcePropertiesByName[i]
           name == currentProperty.name
       IN  IF StartsWithHs(name) THEN Skip /\ Continue
           ELSE IF ~In(name, targetGroupsByName)
           THEN \E outcome \in Outcomes :
                   createPropertyBasedOnOtherProperty(currentProperty, outcome)
           ELSE Skip /\ Continue

\* one iteration of "Create missing" for properties
PropertiesForward ==
    /\ pc = "propertiesForward"
    /\ i <= Len(sourcePropertiesByName)
    /\ LET currentProperty == sourcePropertiesByName[i]
           name == currentProperty.name
       IN  IF StartsWithHs(name) THEN Skip /\ Continue
           ELSE IF ~In(name, targetPropertiesByName)
           THEN \E outcome \in Outcomes :
                   createPropertyBasedOnOtherProperty(currentProperty, outcome)
           ELSE Skip /\ Continue

\* variant: the entry of a property is worded as that of a group
PropertiesReverseWordedAsGroup ==
    /\ pc = "propertiesReverse"
    /\ i <= Len(targetPropertiesByName)
    /\ LET name == targetPropertiesByName[i].name
       IN  IF StartsWithHs(name) THEN Skip
           ELSE IF ~In(name, sourcePropertiesByName)
           THEN /\ messages' = addMessage(messages,
                      "property group " \o name \o " is only in target - "
                      \o "delete it manually or sync other way")
                /\ UNCHANGED <<remote, calls>>
           ELSE Skip
    /\ Continue

\* one iteration of "Report extra" for properties
PropertiesReverse ==
    /\ pc = "propertiesReverse"
    /\ i <= Len(targetPropertiesByName)
    /\ LET name == targetPropertiesByName[i].name
       IN  IF StartsWithHs(name) THEN Skip
           ELSE IF ~In(name, sourcePropertiesByName)
           THEN /\ messages' = addMessage(messages,
                      "property " \o name \o " is only in target - "
                      \o "delete it manually or sync other way")
                /\ UNCHANGED <<remote, calls>>
           ELSE Skip
    /\ Continue

\* a for-loop has run out of items: the next part starts, or the Report is
\* returned
LoopExit ==
    /\ pc \in LoopPhases
    /\ i > Len(LoopItems(pc))
    /\ pc' = AfterPhase(pc)
    /\ i' = 1
    /\ UNCHANGED <<portals, remote, snapshots, messages, calls, netCalls,
                   error>>

----------------------------------------------------------------------------
(* one syncProperties call on two prepared portals *)

\* a portal preparePortal has returned from
Prepared(v) ==
    LET apiKey == PortalNameOf[v] \o "-key"
    IN  [Portal(v, apiKey) EXCEPT !.apiClient = HubSpot(apiKey)]

Init ==
    /\ pc = "getSourceGroups"
    /\ i = 1
    /\ portals = [v \in {sourceVar, targetVar} |-> Prepared(v)]
    /\ \E nsg \in 0..MaxObjects :
       \E nsp \in 0..(MaxObjects - nsg) :
       \E ntg \in 0..(MaxObjects - nsg - nsp) :
       \E ntp \in 0..(MaxObjects - nsg - nsp - ntg) :
       \E sg \in [1..nsg -> GroupObjects], tg \in [1..ntg -> GroupObjects],
          sp \in [1..nsp -> PropertyObjects], tp \in [1..ntp -> PropertyObjects] :
           remote = [a \in {sourceVar, targetVar} |->
                       IF a = sourceVar
                       THEN [groups |-> sg, properties |-> sp]
                       ELSE [groups |-> tg, properties |-> tp]]
    /\ sourceGroupsByName = <<>>
    /\ sourcePropertiesByName = <<>>
    /\ targetGroupsByName = <<>>
    /\ targetPropertiesByName = <<>>
    /\ messages = <<>>
    /\ calls = <<>>
    /\ netCalls = <<>>
    /\ error = None

Next ==
    \/ GetSourceGroups
    \/ GetSourceProperties
    \/ GetTargetGroups
    \/ GetTargetProperties
    \/ GroupsForward
    \/ GroupsReverse
    \/ PropertiesForward
    \/ PropertiesReverse
    \/ LoopExit

Spec == Init /\ [][Next]_vars

----------------------------------------------------------------------------
(* preparePortal, and the preparation phase of __main__ *)

VerifyUrl(apiKey) ==
    "https://api.hubapi.com/integrations/v1/me?hapikey=" \o apiKey

\* what requests.get(...) followed by response.json()['portalId'] may give:
\* an exception, or the portal id the service knows for the credential
Responses ==
    [raises : Failures, portalId : {0}] \cup
    [raises : {"ok"}, portalId : {PortalIdOf[v] : v \in DOMAIN PortalIdOf}]

Raise(e) ==
    /\ pc' = "raised"
    /\ error' = e
    /\ UNCHANGED <<i, portals>>

preparePortal(v, response) ==
    LET portal == portals[v]
    IN  IF NotApiKey(portal.apiKey)
        THEN /\ Raise("ValueError: Missing API key for portal " \o portal.name)
             /\ UNCHANGED netCalls
        ELSE /\ netCalls' = Append(netCalls, VerifyUrl(portal.apiKey))
             /\ IF response.raises # "ok"
                THEN Raise(response.raises)
                ELSE IF response.portalId # portal.portalId
                THEN Raise("AssertionError")
                ELSE /\ portals' = [portals EXCEPT
                                      ![v].apiClient = HubSpot(portal.apiKey)]
                     /\ i' = i + 1
                     /\ pc' = IF i = Len(PortalVars) THEN "prepared" ELSE pc
                     /\ error' = error

\* __main__ hands its next portal to preparePortal
MainPrepare ==
    /\ pc = "preparePortal"
    /\ \E response \in Responses : preparePortal(PortalVars[i], response)
    /\ UNCHANGED <<remote, snapshots, messages, calls>>

PrepInit ==
    /\ pc = "preparePortal"
    /\ i = 1
    /\ \E keys \in [DOMAIN PortalIdOf -> ApiKeys] :
           portals = [v \in DOMAIN PortalIdOf |-> Portal(v, keys[v])]
    /\ remote = [a \in {sourceVar, targetVar} |->
                   [groups |-> <<>>, properties |-> <<>>]]
    /\ sourceGroupsByName = <<>>
    /\ sourcePropertiesByName = <<>>
    /\ targetGroupsByName = <<>>
    /\ targetPropertiesByName = <<>>
    /\ messages = <<>>
    /\ calls = <<>>
    /\ netCalls = <<>>
    /\ error = None

PrepNext == MainPrepare

PrepSpec == PrepInit /\ [][PrepNext]_vars

----------------------------------------------------------------------------
(* Vocabulary of the properties *)

Kinds == {"groups", "properties"}

Returned == pc = "returned"

\* the four listings have been fetched and indexed
Listed == pc \in LoopPhases \cup {"returned"}

SourceSnapshot(kind) ==
    IF kind = "groups" THEN sourceGroupsByName ELSE sourcePropertiesByName

TargetSnapshot(kind) ==
    IF kind = "groups" THEN targetGroupsByName ELSE targetPropertiesByName

NamesOf(d) == {d[k].name : k \in DOMAIN d}

\* the name carries the reserved prefix
IsReservedName(n) == Len(n) >= 3 /\ n = "hs_" \o SubSeq(n, 4, Len(n))

\* names in the source snapshot, absent from the target snapshot, not reserved
MissingOnTarget(kind) ==
    {n \in NamesOf(SourceSnapshot(kind)) \ NamesOf(TargetSnapshot(kind)) :
        ~IsReservedName(n)}

\* names in the target snapshot, absent from the source snapshot, not reserved
OnlyOnTarget(kind) ==
    {n \in NamesOf(TargetSnapshot(kind)) \ NamesOf(SourceSnapshot(kind)) :
        ~IsReservedName(n)}

\* the source snapshot marks property n calculated
IsCalculated(n) ==
    \E k \in DOMAIN sourcePropertiesByName :
        /\ sourcePropertiesByName[k].name = n
        /\ sourcePropertiesByName[k].calculated

\* a report entry of the run portal1 -> portal2 on contacts
Entry(text) == "portal1->portal2 (contact): " \o text

FailedEntry(kind, n, e) ==
    IF kind = "groups"
    THEN Entry("Failed creating new property group " \o n \o ": " \o e)
    ELSE Entry("Failed creating new property  " \o n \o ": " \o e)

CalculatedEntry(n) ==
    Entry("Skipped property " \o n
          \o ": it is a calculated property, create it manually.")

OnlyInTargetEntry(kind, n) ==
    Entry((IF kind = "groups" THEN "property group " ELSE "property ") \o n
          \o " is only in target - delete it manually or sync other way")

\* every report entry the run can write about object n of a kind
EntriesAbout(kind, n) ==
    {FailedEntry(kind, n, e) : e \in Failures}
        \cup {OnlyInTargetEntry(kind, n)}
        \cup (IF kind = "properties" THEN {CalculatedEntry(n)} ELSE {})

\* how many entries of the report are in S
Count(S) == Cardinality({k \in DOMAIN messages : messages[k] \in S})

CreateApi(kind) ==
    IF kind = "groups" THEN "groups_api.create" ELSE "core_api.create"

\* the creation calls made for object n of a kind
CallsFor(kind, n) ==
    {k \in DOMAIN calls :
        calls[k].api = CreateApi(kind) /\ calls[k].body.name = n}

\* one creation attempt for n, and a report entry exactly when it failed
CreatedOnce(kind, n) ==
    /\ Cardinality(CallsFor(kind, n)) = 1
    /\ \A k \in CallsFor(kind, n) :
          IF calls[k].outcome = "ok"
          THEN Count(EntriesAbout(kind, n)) = 0
          ELSE /\ Count({FailedEntry(kind, n, calls[k].outcome)}) = 1
               /\ Count(EntriesAbout(kind, n)) = 1

----------------------------------------------------------------------------
(* C1 *)

\* C1 as stated: when the run has returned, every non-reserved name of
\* either kind that is in the source snapshot and not in the target snapshot
\* has had exactly one creation attempt, and one report entry with its name
\* and the failure detail if the attempt failed.
C1_EveryMissingCreatedOnce ==
    Returned =>
        \A kind \in Kinds : \A n \in MissingOnTarget(kind) :
            CreatedOnce(kind, n)

\* C1 amended: the same, for every missing non-reserved group and every
\* missing non-reserved property that the source snapshot does not mark
\* calculated.
C1_MissingCreatedOnce ==
    Returned =>
        \A kind \in Kinds : \A n \in MissingOnTarget(kind) :
            (kind = "properties" /\ IsCalculated(n)) \/ CreatedOnce(kind, n)

\* a group creation and a property creation have both failed, and the
\* source listing named the missing group twice
C1_Witness ==
    /\ Returned
    /\ Len(remote[sourceVar].groups) > Len(sourceGroupsByName)
    /\ \E j, k \in DOMAIN calls :
          /\ calls[j].api = "groups_api.create" /\ calls[j].outcome # "ok"
          /\ calls[k].api = "core_api.create" /\ calls[k].outcome # "ok"

----------------------------------------------------------------------------
(* C2 *)

\* C2: when the run has returned, every non-reserved name of either kind that
\* is in the target snapshot and not in the source snapshot has exactly one
\* report entry, the "is only in target" entry of its kind, and no creation
\* call of that kind.
C2_OnlyOnTargetReportedOnce ==
    Returned =>
        \A kind \in Kinds : \A n \in OnlyOnTarget(kind) :
            /\ Count({OnlyInTargetEntry(kind, n)}) = 1
            /\ Count(EntriesAbout(kind, n)) = 1
            /\ CallsFor(kind, n) = {}

\* a group and a property exist only on the target
C2_Witness ==
    /\ Returned
    /\ OnlyOnTarget("groups") # {}
    /\ OnlyOnTarget("properties") # {}

----------------------------------------------------------------------------
(* C3 *)

\* C3: once the listings are fetched, a reserved name that is in exactly one
\* of the two snapshots of a kind never has a report entry or a creation call
\* of that kind.
C3_ReservedUntouched ==
    Listed =>
        \A kind \in Kinds :
        \A n \in NamesOf(SourceSnapshot(kind)) \cup NamesOf(TargetSnapshot(kind)) :
            (/\ IsReservedName(n)
             /\ ~(/\ n \in NamesOf(SourceSnapshot(kind))
                  /\ n \in NamesOf(TargetSnapshot(kind))))
            => /\ Count(EntriesAbout(kind, n)) = 0
               /\ CallsFor(kind, n) = {}

\* a reserved group only on the source and a reserved property only on the
\* target have been passed by
C3_Witness ==
    /\ Returned
    /\ \E n \in NamesOf(sourceGroupsByName) \ NamesOf(targetGroupsByName) :
          IsReservedName(n)
    /\ \E n \in NamesOf(targetPropertiesByName) \ NamesOf(sourcePropertiesByName) :
          IsReservedName(n)

----------------------------------------------------------------------------
(* C4 *)

\* C4: once the listings are fetched, a name that is in both snapshots of a
\* kind never has a creation call or a report entry of that kind, whatever
\* the two objects carry.
C4_PresentOnBothUntouched ==
    Listed =>
        \A kind \in Kinds :
        \A n \in NamesOf(SourceSnapshot(kind)) \cap NamesOf(TargetSnapshot(kind)) :
            /\ CallsFor(kind, n) = {}
            /\ Count(EntriesAbout(kind, n)) = 0

\* a non-reserved property is on both sides, calculated on the source and
\* not on the target
C4_Witness ==
    /\ Returned
    /\ \E j \in DOMAIN sourcePropertiesByName :
       \E k \in DOMAIN targetPropertiesByName :
          /\ sourcePropertiesByName[j].name = targetPropertiesByName[k].name
          /\ ~IsReservedName(sourcePropertiesByName[j].name)
          /\ sourcePropertiesByName[j].calculated
          /\ ~targetPropertiesByName[k].calculated

----------------------------------------------------------------------------
(* C5 *)

\* C5: when the run has returned, every non-reserved calculated property
\* missing on the target has its one "create it manually" entry and no
\* creation call, and every non-calculated missing property of the same run
\* has its one creation call.
C5_CalculatedReportedOthersCreated ==
    Returned =>
        \A n \in MissingOnTarget("properties") :
            IsCalculated(n) =>
                /\ Count({CalculatedEntry(n)}) = 1
                /\ Count(EntriesAbout("properties", n)) = 1
                /\ CallsFor("properties", n) = {}
                /\ \A m \in MissingOnTarget("properties") :
                      ~IsCalculated(m) =>
                          Cardinality(CallsFor("properties", m)) = 1

\* a calculated missing property came first and the missing property after
\* it, which is not calculated, was still sent to the target
C5_Witness ==
    /\ Returned
    /\ Len(sourcePropertiesByName) >= 2
    /\ sourcePropertiesByName[1].name \in MissingOnTarget("properties")
    /\ sourcePropertiesByName[1].calculated
    /\ sourcePropertiesByName[2].name \in MissingOnTarget("properties")
    /\ ~sourcePropertiesByName[2].calculated
    /\ CallsFor("properties", sourcePropertiesByName[2].name) # {}

----------------------------------------------------------------------------
(* C6 *)

\* the four passes and the return, in the order the claims give them
PassOrder == <<"groupsForward", "groupsReverse", "propertiesForward",
               "propertiesReverse", "returned">>

\* the step has issued a creation call that raised
CreationFailed ==
    /\ Len(calls') = Len(calls) + 1
    /\ calls'[Len(calls')].outcome # "ok"

\* what a step taken inside the four passes does
C6_PassStep ==
    /\ pc' \in LoopPhases \cup {"returned"}
    /\ error' = None
    /\ IF pc' = pc
       THEN i <= Len(LoopItems(pc)) /\ i' = i + 1
       ELSE /\ i > Len(LoopItems(pc))
            /\ \E j, k \in DOMAIN PassOrder :
                  j < k /\ PassOrder[j] = pc /\ PassOrder[k] = pc'
    /\ CreationFailed =>
          LET c == calls'[Len(calls')]
              kind == IF c.api = "groups_api.create" THEN "groups"
                      ELSE "properties"
          IN  /\ messages' =
                    Append(messages, FailedEntry(kind, c.body.name, c.outcome))
              /\ pc' = pc
              /\ UNCHANGED <<remote, snapshots, portals, netCalls>>

\* C6: once the four listings are fetched, no step raises: whichever creation
\* calls fail, there is a next step until the Report is returned, each step
\* moves to the next item or, after the last item of a pass, to the pass that
\* follows (so the run ends, with the return of the Report), and a failed
\* creation only appends its entry.
C6_CreationFailureNeverAborts ==
    /\ [](pc \in LoopPhases => ENABLED Next)
    /\ [][(pc \in LoopPhases) => C6_PassStep]_vars

\* the run has returned after a group creation failed and a property
\* creation made later was attempted
C6_Witness ==
    /\ Returned
    /\ \E j, k \in DOMAIN calls :
          /\ j < k
          /\ calls[j].api = "groups_api.create" /\ calls[j].outcome # "ok"
          /\ calls[k].api = "core_api.create"
    /\ Len(messages) >= 2

----------------------------------------------------------------------------
(* C7 *)

IsPrefix(s, t) == Len(s) <= Len(t) /\ SubSeq(t, 1, Len(s)) = s

\* C7: no step changes what the source account stores; what the target
\* account stores only grows at its end; every call issued is a creation call
\* to the target portal's client for a name that is in the source snapshot
\* and not in the target snapshot; and the target only changes by a creation
\* call that succeeded, which stores what the call carried.
C7_OnlyCreatesOnTarget ==
    [][ /\ remote'[sourceVar] = remote[sourceVar]
        /\ \A kind \in Kinds :
              IsPrefix(remote[targetVar][kind], remote'[targetVar][kind])
        /\ IsPrefix(calls, calls')
        /\ \A k \in DOMAIN calls' \ DOMAIN calls :
              /\ calls'[k].portal = "portal2"
              /\ calls'[k].client = "HubSpot(api_key=portal2-key)"
              /\ \E kind \in Kinds :
                    /\ calls'[k].api = CreateApi(kind)
                    /\ calls'[k].body.name \in MissingOnTarget(kind)
        /\ remote' # remote =>
              /\ Len(calls') = Len(calls) + 1
              /\ calls'[Len(calls')].outcome = "ok"
              /\ \E kind \in Kinds :
                    /\ calls'[Len(calls')].api = CreateApi(kind)
                    /\ remote'[targetVar][kind] =
                          Append(remote[targetVar][kind],
                                 calls'[Len(calls')].body)
      ]_vars

\* a group was created on a target that already had a group
C7_Witness ==
    /\ Returned
    /\ targetGroupsByName # <<>>
    /\ Len(remote[targetVar].groups) > Len(targetGroupsByName)
    /\ \E k \in DOMAIN calls :
          calls[k].api = "groups_api.create" /\ calls[k].outcome = "ok"

----------------------------------------------------------------------------
(* C8 *)

NoCredential(apiKey) == apiKey \in {None, ""}

\* C8: a portal whose credential is empty or absent never has a client
\* handle and its verification request is never issued; when preparePortal
\* meets it, the run ends with the ValueError and only the portals before it
\* have been verified; the preparation never completes with such a portal.
C8_NoCredentialNoNetwork ==
    /\ \A v \in DOMAIN portals :
          NoCredential(portals[v].apiKey) =>
              /\ portals[v].apiClient = None
              /\ \A k \in DOMAIN netCalls :
                    netCalls[k] #
                      "https://api.hubapi.com/integrations/v1/me?hapikey="
                      \o portals[v].apiKey
    /\ pc = "preparePortal" =>
          \A k \in 1..(i - 1) : ~NoCredential(portals[PortalVars[k]].apiKey)
    /\ (pc = "raised" /\ NoCredential(portals[PortalVars[i]].apiKey)) =>
          /\ error = "ValueError: Missing API key for portal "
                     \o portals[PortalVars[i]].name
          /\ Len(netCalls) = i - 1
    /\ pc = "prepared" =>
          \A v \in DOMAIN portals : ~NoCredential(portals[v].apiKey)

\* the second portal has an empty credential: the first was verified, the
\* second raised without a request
C8_Witness ==
    /\ pc = "raised"
    /\ i = 2
    /\ portals["portal2Portal"].apiKey = ""
    /\ portals["portal1Portal"].apiClient # None
    /\ Len(netCalls) = 1

----------------------------------------------------------------------------
(* C9 *)

\* the position of a report entry among the four kinds of entries
Category(m) ==
    IF \E n \in Names, e \in Failures : m = FailedEntry("groups", n, e) THEN 1
    ELSE IF \E n \in Names : m = OnlyInTargetEntry("groups", n) THEN 2
    ELSE IF \E n \in Names :
              \/ m = CalculatedEntry(n)
              \/ \E e \in Failures : m = FailedEntry("properties", n, e) THEN 3
    ELSE IF \E n \in Names : m = OnlyInTargetEntry("properties", n) THEN 4
    ELSE 0

PassIndex(p) == CHOOSE k \in DOMAIN PassOrder : PassOrder[k] = p

\* each pass adds only its own kind of call and entry, and is left only after
\* its last item, for the pass that follows it
C9_PassStep ==
    /\ \A k \in DOMAIN calls' \ DOMAIN calls :
          calls'[k].api = (IF pc = "groupsForward" THEN "groups_api.create"
                           ELSE "core_api.create")
    /\ calls' # calls => pc \in {"groupsForward", "propertiesForward"}
    /\ \A k \in DOMAIN messages' \ DOMAIN messages :
          Category(messages'[k]) = PassIndex(pc)
    /\ pc' # pc =>
          /\ i > Len(LoopItems(pc))
          /\ PassIndex(pc') = PassIndex(pc) + 1

\* C9: every group creation call comes before every property creation call
\* and the report entries come in the order of the four kinds of entries;
\* each pass adds only its own kind of call and entry, and a pass is left
\* only after its last item, for the pass that follows it.
C9_StrictlyOrdered ==
    /\ [](\A j, k \in DOMAIN calls :
            (j < k /\ calls[j].api = "core_api.create")
                => calls[k].api = "core_api.create")
    /\ [](\A j, k \in DOMAIN messages :
            j < k => (/\ Category(messages[j]) >= 1
                      /\ Category(messages[j]) <= Category(messages[k])))
    /\ [][(pc \in LoopPhases) => C9_PassStep]_vars

\* the report holds entries of three of the four kinds, after a group and a
\* property creation call
C9_Witness ==
    /\ Returned
    /\ Cardinality({Category(messages[k]) : k \in DOMAIN messages}) >= 3
    /\ \E j, k \in DOMAIN calls :
          calls[j].api = "groups_api.create" /\ calls[k].api = "core_api.create"

----------------------------------------------------------------------------
(* C10 *)

\* C10: a syncProperties run that has raised did so out of a listing call:
\* the exception is the listing's, nothing further runs, and no creation call
\* has been issued and no entry written; a creation call or an entry exists
\* only once the four listings are fetched.
C10_ListingFailurePropagates ==
    /\ pc = "raised" =>
          /\ error \in Failures
          /\ calls = <<>>
          /\ messages = <<>>
          /\ ~ENABLED Next
    /\ (calls # <<>> \/ messages # <<>>) => Listed

\* the last listing raised when a group was due to be created
C10_Witness ==
    /\ pc = "raised"
    /\ \E k \in DOMAIN sourceGroupsByName :
          /\ ~IsReservedName(sourceGroupsByName[k].name)
          /\ sourceGroupsByName[k].name \notin NamesOf(targetGroupsByName)
    /\ targetGroupsByName # <<>>
    /\ sourcePropertiesByName # <<>>

====
